---- MODULE Spec2Model ----
(***************************************************************************)
(* Model of the quetlink Telegram bot: the offline reverse-geocoding       *)
(* engine of src/src/geocode.ts (lazy one-time dataset load shared through *)
(* a promise, grid index, nearest-neighbour matching, display string) and  *)
(* the survey handlers of src/src/index.ts that call it.                   *)
(*                                                                         *)
(* Conventions.  Coordinates are kept in tenths of a degree (55.9 degrees  *)
(* is 559), distances in metres.  A JavaScript number is a record          *)
(* [k, v]: finite with value v, Infinity, or NaN.  A nullable module       *)
(* variable holds Null or a tagged record.  The Cyrillic literals of the   *)
(* source are written in Latin letters: "g. " for the city prefix,         *)
(* "Rossiya" for the country name, "Donetsk" for the excluded entry.       *)
(***************************************************************************)
EXTENDS Integers, Sequences, FiniteSets, TLC

VARIABLES
    ruFile,           \* content of data/russian-cities_with_english.json
    txtFile,          \* content of data/data_geo/cities5000.txt (its lines)
    fsOk,             \* which of the two files fs.readFile can read now
    cityIndex,        \* geocode.ts:119
    russianGeoIndex,  \* geocode.ts:120
    loadPromise,      \* geocode.ts:121: Null or the promise of a load body
    russianNamesMap,  \* geocode.ts:122
    body,             \* the async bodies of lines 178-200: where each is suspended, its locals
    calls,            \* the reverseGeocodeDisplay calls in flight, one per caller
    hist,             \* history: how often the body ran, each file was read, each global was assigned
    user,             \* the survey state of one user (index.ts UserState)
    sending,          \* a text handler is suspended at line 460, before sendResults
    probe             \* the arguments and the result of one function applied on its own

vars == <<ruFile, txtFile, fsOk, cityIndex, russianGeoIndex, loadPromise,
          russianNamesMap, body, calls, hist, user, sending, probe>>

engineVars == <<cityIndex, russianGeoIndex, loadPromise, russianNamesMap, body, hist>>

(***************************************************************************)
(* Bounds of the model.                                                    *)
(***************************************************************************)
\* callers that may have a reverseGeocodeDisplay call in flight at once
NCalls == 2
\* longest dataset file (entries of the JSON array, lines of the gazetteer)
MaxLines == 2

Callers == 1..NCalls

(***************************************************************************)
(* JavaScript values.                                                      *)
(***************************************************************************)
Null == [tag |-> "null"]
Fin(v) == [k |-> "fin", v |-> v]
Infinity == [k |-> "inf", v |-> 0]
NaN == [k |-> "nan", v |-> 0]
IsNaN(x) == x.k = "nan"

\* a < b on JavaScript numbers (false as soon as one side is NaN)
NumLt(a, b) ==
    /\ a.k = "fin"
    /\ \/ b.k = "inf"
       \/ b.k = "fin" /\ a.v < b.v

\* a > b on JavaScript numbers
NumGt(a, b) == NumLt(b, a)

\* a >= b and a <= b on finite numbers and bounds in tenths of a degree
NumGe(a, bound) == a.k = "inf" \/ (a.k = "fin" /\ a.v >= bound)
NumLe(a, bound) == a.k = "fin" /\ a.v <= bound

\* the decimal literals that occur in the dataset files, in tenths of a degree
DecimalValue ==
    ("56.0" :> 560) @@ ("38.0" :> 380) @@ ("55.1" :> 551) @@ ("37.1" :> 371) @@
    ("0.5" :> 5) @@ ("-30.5" :> -305) @@
    ("79.1" :> 791) @@ ("50.1" :> 501) @@ ("80.5" :> 805) @@ ("52.5" :> 525) @@
    ("95.0" :> 950) @@
    ("41.0" :> 410) @@ ("19.0" :> 190) @@ ("82.0" :> 820) @@ ("180.0" :> 1800) @@
    ("40.9" :> 409) @@ ("18.9" :> 189) @@ ("82.1" :> 821) @@
    ("178.5" :> 1785) @@ ("-179.9" :> -1799)

\* the strings of the dataset files that begin with a decimal literal and go
\* on with other characters, and that literal
NumericPrefix == ("56.0x" :> "56.0")

\* parseFloat: the value of the longest leading decimal literal, whatever
\* follows it; "Infinity" gives Infinity, text without a leading number NaN
parseFloat(s) ==
    IF s \in DOMAIN DecimalValue THEN Fin(DecimalValue[s])
    ELSE IF s \in DOMAIN NumericPrefix THEN Fin(DecimalValue[NumericPrefix[s]])
    ELSE IF s = "Infinity" THEN Infinity
    ELSE NaN

\* String.prototype.trim on the strings of the model
Trim(s) ==
    CASE s = " Moskva " -> "Moskva"
      [] s = " Moscow " -> "Moscow"
      [] s = " " -> ""
      [] OTHER -> s

\* String.prototype.toLowerCase / toUpperCase on the strings of the model
toLowerCase(s) ==
    CASE s = "Moscow" -> "moscow"
      [] s = "Kaluga" -> "kaluga"
      [] s = "Paris" -> "paris"
      [] s = "Donetsk" -> "donetsk"
      [] OTHER -> s

toUpperCase(s) ==
    CASE s = "ru" -> "RU"
      [] s = "fr" -> "FR"
      [] OTHER -> s

(***************************************************************************)
(* Constants of geocode.ts.                                                *)
(***************************************************************************)
\* GRID_CELL_SIZE = 1.0 degree, in tenths of a degree
GRID_CELL_SIZE == 10
\* MAX_RU_MATCH_KM, in kilometres
MAX_RU_MATCH_KM == 80
\* RU_BBOX, in tenths of a degree
RU_BBOX == [latMin |-> 410, latMax |-> 820, lonMin |-> 190, lonMax |-> 1800]

\* ./country-codes.js CODE_TO_COUNTRY_NAME: a static table of display names
CODE_TO_COUNTRY_NAME == ("RU" :> "Rossiya") @@ ("FR" :> "Frantsiya")

(***************************************************************************)
(* haversineDistance.  The great-circle formula of geocode.ts:37-53 with   *)
(* EARTH_RADIUS_KM = 6371, evaluated at the coordinate pairs the model     *)
(* uses and truncated to metres.  A non-finite argument makes Math.sin     *)
(* return NaN, and the result is NaN.                                      *)
(***************************************************************************)
HaversineMetres ==
    (<<559, 379, 560, 380>> :> 12743) @@ (<<559, 379, 551, 371>> :> 102232) @@
    (<<559, 379, 5, -305>> :> 8636110) @@ (<<559, 379, 791, 501>> :> 2618172) @@
    (<<559, 379, 805, 525>> :> 2780771) @@
    (<<5, -305, 560, 380>> :> 8645444) @@ (<<5, -305, 551, 371>> :> 8560534) @@
    (<<5, -305, 5, -305>> :> 0) @@ (<<5, -305, 791, 501>> :> 9756128) @@
    (<<5, -305, 805, 525>> :> 9824540) @@
    (<<805, 501, 560, 380>> :> 2755608) @@ (<<805, 501, 551, 371>> :> 2860088) @@
    (<<805, 501, 5, -305>> :> 9780927) @@ (<<805, 501, 791, 501>> :> 155672) @@
    (<<805, 501, 805, 525>> :> 44042) @@
    (<<559, 379, 950, 380>> :> 4347720) @@ (<<5, -305, 950, 380>> :> 10155670) @@
    (<<805, 501, 950, 380>> :> 1604174) @@
    (<<410, 190, 410, 190>> :> 0) @@ (<<410, 190, 820, 1800>> :> 6294542) @@
    (<<410, 190, 409, 190>> :> 11119) @@ (<<410, 190, 410, 189>> :> 8391) @@
    (<<410, 190, 821, 1800>> :> 6283916) @@ (<<410, 190, 560, 380>> :> 2162728) @@
    (<<820, 1800, 410, 190>> :> 6294542) @@ (<<820, 1800, 820, 1800>> :> 0) @@
    (<<820, 1800, 409, 190>> :> 6305645) @@ (<<820, 1800, 410, 189>> :> 6294996) @@
    (<<820, 1800, 821, 1800>> :> 11119) @@ (<<820, 1800, 560, 380>> :> 4510875) @@
    (<<409, 190, 410, 190>> :> 11119) @@ (<<409, 190, 820, 1800>> :> 6305645) @@
    (<<409, 190, 409, 190>> :> 0) @@ (<<409, 190, 410, 189>> :> 13934) @@
    (<<409, 190, 821, 1800>> :> 6295019) @@ (<<409, 190, 560, 380>> :> 2172046) @@
    (<<410, 189, 410, 190>> :> 8391) @@ (<<410, 189, 820, 1800>> :> 6294996) @@
    (<<410, 189, 409, 190>> :> 13934) @@ (<<410, 189, 410, 189>> :> 0) @@
    (<<410, 189, 821, 1800>> :> 6284365) @@ (<<410, 189, 560, 380>> :> 2167323) @@
    (<<821, 1800, 410, 190>> :> 6283916) @@ (<<821, 1800, 820, 1800>> :> 11119) @@
    (<<821, 1800, 409, 190>> :> 6295019) @@ (<<821, 1800, 410, 189>> :> 6284365) @@
    (<<821, 1800, 821, 1800>> :> 0) @@ (<<821, 1800, 560, 380>> :> 4501445) @@
    (<<805, 501, 5, 1785>> :> 10606715) @@ (<<805, 501, 5, -1799>> :> 10629574) @@
    (<<5, 1799, 791, 501>> :> 10725597) @@ (<<5, 1799, 805, 525>> :> 10592171) @@
    (<<5, 1799, 5, 1785>> :> 155666) @@ (<<5, 1799, 5, -1799>> :> 22238)

haversineDistance(lat1, lon1, lat2, lon2) ==
    IF lat1.k = "fin" /\ lon1.k = "fin" /\ lat2.k = "fin" /\ lon2.k = "fin"
    THEN Fin(HaversineMetres[<<lat1.v, lon1.v, lat2.v, lon2.v>>])
    ELSE NaN

(***************************************************************************)
(* Grid keys.                                                              *)
(***************************************************************************)
\* Math.floor(x / GRID_CELL_SIZE)
FloorCell(x) == IF x.k = "fin" THEN Fin(x.v \div GRID_CELL_SIZE) ELSE x

\* x + d on a cell number
CellPlus(x, d) == IF x.k = "fin" THEN Fin(x.v + d) ELSE x

\* the key string "latCell,lonCell", kept as the pair it is built from
getGridKey(lat, lon) == <<FloorCell(lat), FloorCell(lon)>>

\* a mutant of getNeighborGridKeys: only the cell of the point itself
getNeighborGridKeysOwnCell(lat, lon) ==
    [i \in 1..1 |-> <<FloorCell(lat), FloorCell(lon)>>]

\* a variant of inRussiaBbox: every point counts as inside
inRussiaBboxEverywhere(lat, lon) == lat.k # "nan" /\ lon.k # "nan"

\* the 3x3 block of keys, dLat outer and dLon inner, both from -1 to 1
getNeighborGridKeys(lat, lon) ==
    [i \in 1..9 |->
        <<CellPlus(FloorCell(lat), ((i - 1) \div 3) - 1),
          CellPlus(FloorCell(lon), ((i - 1) % 3) - 1)>>]

inRussiaBbox(lat, lon) ==
    /\ NumGe(lat, RU_BBOX.latMin)
    /\ NumLe(lat, RU_BBOX.latMax)
    /\ NumGe(lon, RU_BBOX.lonMin)
    /\ NumLe(lon, RU_BBOX.lonMax)

\* the Map built by the insertion pass of both loaders: each key present maps
\* to the points of that cell in insertion order
GridOf(points) ==
    [key \in {getGridKey(points[i].lat, points[i].lon) : i \in DOMAIN points} |->
        SelectSeq(points, LAMBDA p : getGridKey(p.lat, p.lon) = key)]

(***************************************************************************)
(* The dataset files.  An entry of the JSON array is a record with its     *)
(* name, its optional english_name and its optional coords (two strings).  *)
(* A gazetteer line is kept as the fields split("\t") gives: how many      *)
(* there are, and the six that parseCityLine reads.                        *)
(***************************************************************************)
RuEntry(name, hasEnglish, english, hasCoords, lat, lon) ==
    [name |-> name, hasEnglish |-> hasEnglish, english_name |-> english,
     hasCoords |-> hasCoords, lat |-> lat, lon |-> lon]

TxtLine(parts, name, lat, lon, feature, country, population) ==
    [parts |-> parts, name |-> name, lat |-> lat, lon |-> lon,
     feature |-> feature, country |-> country, population |-> population]

\* the whole line is white space
BlankLine == TxtLine(1, "", "", "", "", "", "")

rNear == RuEntry("Moskva", TRUE, "Moscow", TRUE, "56.0", "38.0")
rFar == RuEntry("Orel", TRUE, "Oryol", TRUE, "55.1", "37.1")
rOcean == RuEntry("Ostrov", FALSE, "", TRUE, "0.5", "-30.5")
rInf == RuEntry("Polyus", FALSE, "", TRUE, "Infinity", "38.0")

gNear == TxtLine(19, "Moscow", "56.0", "38.0", "PPLC", "RU", "12000")
gFar == TxtLine(19, "Oryol", "55.1", "37.1", "PPLA", "RU", "")
gShort == TxtLine(14, "Paris", "56.0", "38.0", "PPLC", "FR", "")
gInf == TxtLine(19, "Nowhere", "Infinity", "38.0", "PPL", "XX", "")

RegionalEntries == {rNear, rFar, rOcean, rInf}
GlobalLines == {gNear, gFar, gShort, gInf}

\* the sequences over S of length at most n
SeqsUpTo(S, n) == UNION {[1..k -> S] : k \in 0..n}

\* the coordinates a caller may ask about (valid WGS84, finite)
qEdge == [lat |-> Fin(559), lon |-> Fin(379)]
qOcean == [lat |-> Fin(5), lon |-> Fin(-305)]
qNorth == [lat |-> Fin(805), lon |-> Fin(501)]
Queries == {qEdge, qOcean, qNorth}

\* a query a tenth of a degree west of the antimeridian
qDateline == [lat |-> Fin(5), lon |-> Fin(1799)]

\* queries on the corners of RU_BBOX and a tenth of a degree outside them
BoxQueries ==
    {[lat |-> Fin(410), lon |-> Fin(190)], [lat |-> Fin(820), lon |-> Fin(1800)],
     [lat |-> Fin(409), lon |-> Fin(190)], [lat |-> Fin(410), lon |-> Fin(189)],
     [lat |-> Fin(821), lon |-> Fin(1800)]}

(***************************************************************************)
(* parseCityLine and the parsing loops of the three loaders.               *)
(***************************************************************************)
\* parseInt(s, 10) of a population field
parseInt10(s) == IF s = "12000" THEN Fin(12000) ELSE NaN

\* parseCityLine: Null for a line it rejects, else the CityData
parseCityLine(line) ==
    LET name == Trim(line.name)
        latStr == Trim(line.lat)
        lonStr == Trim(line.lon)
        featureCode == toUpperCase(Trim(line.feature))
        countryCode == toUpperCase(Trim(line.country))
        populationStr == Trim(line.population)
        population == IF populationStr # "" THEN parseInt10(populationStr) ELSE Fin(0)
        populationNum == IF IsNaN(population) THEN 0
                         ELSE IF population.v < 0 THEN 0 ELSE population.v
        lat == parseFloat(latStr)
        lon == parseFloat(lonStr)
    IN  IF line.parts < 15 THEN Null
        ELSE IF name = "" \/ latStr = "" \/ lonStr = "" \/ countryCode = "" THEN Null
        ELSE IF IsNaN(lat) \/ IsNaN(lon) THEN Null
        ELSE [tag |-> "city", name |-> name, lat |-> lat, lon |-> lon,
              countryCode |-> countryCode, population |-> populationNum,
              featureCode |-> featureCode]

RECURSIVE ParseLines(_)
\* the loop of loadCitiesAsync over the lines: the CityData of the accepted ones
ParseLines(lines) ==
    IF lines = << >> THEN << >>
    ELSE LET line == Head(lines)
             city == IF line = BlankLine THEN Null ELSE parseCityLine(line)
         IN  (IF city = Null THEN << >> ELSE <<city>>) \o ParseLines(Tail(lines))

\* the { grid, cities } that loadCitiesAsync builds from the gazetteer
BuildCityIndex(lines) ==
    LET cities == ParseLines(lines)
    IN  [tag |-> "index", grid |-> GridOf(cities), cities |-> cities, isReady |-> TRUE]

RECURSIVE ParseRuEntries(_)
\* the loop of loadRussianGeo over the entries: the points it keeps
ParseRuEntries(raw) ==
    IF raw = << >> THEN << >>
    ELSE LET c == Head(raw)
             lat == parseFloat(c.lat)
             lon == parseFloat(c.lon)
             keep == /\ Trim(c.name) # ""
                     /\ c.hasCoords
                     /\ ~IsNaN(lat)
                     /\ ~IsNaN(lon)
             point == [tag |-> "point", name |-> Trim(c.name), lat |-> lat, lon |-> lon]
         IN  (IF keep THEN <<point>> ELSE << >>) \o ParseRuEntries(Tail(raw))

\* the index loadRussianGeo publishes
BuildRussianGeo(raw) ==
    LET cities == ParseRuEntries(raw)
    IN  [tag |-> "index", grid |-> GridOf(cities), cities |-> cities, isReady |-> TRUE]

\* a variant of NamesMapKeeps: the entry named "Donetsk" is treated like any other
NamesMapKeepsSentinel(c) == c.hasEnglish /\ Trim(c.english_name) # ""

\* an entry loadRussianNamesMap inserts
NamesMapKeeps(c) == ~(c.name = "Donetsk" \/ ~c.hasEnglish \/ Trim(c.english_name) = "")

NamesMapKey(c) == toLowerCase(Trim(c.english_name))

\* the Map loadRussianNamesMap builds: a later entry overwrites an earlier
\* one with the same key
BuildNamesMap(raw) ==
    LET kept == {i \in DOMAIN raw : NamesMapKeeps(raw[i])}
        keys == {NamesMapKey(raw[i]) : i \in kept}
        last(key) == CHOOSE i \in kept :
                        /\ NamesMapKey(raw[i]) = key
                        /\ \A j \in kept : NamesMapKey(raw[j]) = key => j <= i
    IN  [tag |-> "map", entries |-> [key \in keys |-> raw[last(key)].name]]

(***************************************************************************)
(* Matching: findNearestRussianCity and the body of reverseGeocodeDisplay  *)
(* after the load.                                                         *)
(***************************************************************************)
RECURSIVE Candidates(_, _)
\* the points of the cells named by keys, in the order of the keys
Candidates(grid, keys) ==
    IF keys = << >> THEN << >>
    ELSE (IF Head(keys) \in DOMAIN grid THEN grid[Head(keys)] ELSE << >>)
         \o Candidates(grid, Tail(keys))

RECURSIVE Scan(_, _, _, _)
\* the linear scan that keeps the first point of least distance
Scan(toCheck, lat, lon, best) ==
    IF toCheck = << >> THEN best
    ELSE LET c == Head(toCheck)
             d == haversineDistance(lat, lon, c.lat, c.lon)
         IN  Scan(Tail(toCheck), lat, lon,
                  IF NumLt(d, best.minDist)
                  THEN [nearest |-> c, minDist |-> d]
                  ELSE best)

NoNearest == [nearest |-> Null, minDist |-> Infinity]

\* candidates.length > 0 ? candidates : all
ToCheck(index, lat, lon) ==
    LET candidates == Candidates(index.grid, getNeighborGridKeys(lat, lon))
    IN  IF Len(candidates) > 0 THEN candidates ELSE index.cities

\* a mutant of findNearestRussianCity: no cutoff at MAX_RU_MATCH_KM
findNearestRussianCityAnyDistance(ruIndex, lat, lon) ==
    LET found == Scan(ToCheck(ruIndex, lat, lon), lat, lon, NoNearest)
    IN  IF found.nearest = Null
        THEN Null
        ELSE [tag |-> "ru", name |-> found.nearest.name, distance |-> found.minDist]

\* findNearestRussianCity: Null, or the nearest regional point within the radius
findNearestRussianCity(ruIndex, lat, lon) ==
    LET found == Scan(ToCheck(ruIndex, lat, lon), lat, lon, NoNearest)
    IN  IF found.nearest = Null \/ NumGt(found.minDist, Fin(MAX_RU_MATCH_KM * 1000))
        THEN Null
        ELSE [tag |-> "ru", name |-> found.nearest.name, distance |-> found.minDist]

\* the values a call can end with: a display string, null, or a thrown error.
\* from tells which dataset the string was taken from.
Str(s, from) == [kind |-> "string", val |-> s, from |-> from]
None == [kind |-> "null", val |-> "", from |-> "none"]
Thrown == [kind |-> "error", val |-> "", from |-> "none"]

\* a variant of Format: the country alone as soon as it is known
FormatCountryFirst(displayCity, countryName) ==
    IF countryName # "" THEN Str(countryName, "global")
    ELSE IF displayCity # "" THEN Str("g. " \o displayCity, "global")
    ELSE None

\* lines 281-284: the four returns of the display string
Format(displayCity, countryName) ==
    IF displayCity # "" /\ countryName # ""
    THEN Str("g. " \o displayCity \o ", " \o countryName, "global")
    ELSE IF displayCity # "" THEN Str("g. " \o displayCity, "global")
    ELSE IF countryName # "" THEN Str(countryName, "global")
    ELSE None

\* a variant of DisplayOf: the translation map is consulted for every country
DisplayOfAnyCountry(nearestCity, namesMap) ==
    LET countryName == IF nearestCity.countryCode \in DOMAIN CODE_TO_COUNTRY_NAME
                       THEN CODE_TO_COUNTRY_NAME[nearestCity.countryCode]
                       ELSE nearestCity.countryCode
        key == toLowerCase(nearestCity.name)
        ru == IF namesMap # Null /\ key \in DOMAIN namesMap.entries
              THEN namesMap.entries[key]
              ELSE ""
        displayCity == IF ru # "" THEN ru ELSE nearestCity.name
    IN  Format(displayCity, countryName)

\* a variant of DisplayOf: a code missing from the table gives no country name
DisplayOfTableOnly(nearestCity, namesMap) ==
    LET countryName == IF nearestCity.countryCode \in DOMAIN CODE_TO_COUNTRY_NAME
                       THEN CODE_TO_COUNTRY_NAME[nearestCity.countryCode]
                       ELSE ""
        key == toLowerCase(nearestCity.name)
        ru == IF /\ nearestCity.countryCode = "RU"
                 /\ namesMap # Null
                 /\ key \in DOMAIN namesMap.entries
              THEN namesMap.entries[key]
              ELSE ""
        displayCity == IF ru # "" THEN ru ELSE nearestCity.name
    IN  Format(displayCity, countryName)

\* lines 273-284: the display string of a record of the gazetteer
DisplayOf(nearestCity, namesMap) ==
    LET countryName == IF nearestCity.countryCode \in DOMAIN CODE_TO_COUNTRY_NAME
                       THEN CODE_TO_COUNTRY_NAME[nearestCity.countryCode]
                       ELSE nearestCity.countryCode
        key == toLowerCase(nearestCity.name)
        ru == IF /\ nearestCity.countryCode = "RU"
                 /\ namesMap # Null
                 /\ key \in DOMAIN namesMap.entries
              THEN namesMap.entries[key]
              ELSE ""
        displayCity == IF ru # "" THEN ru ELSE nearestCity.name
    IN  Format(displayCity, countryName)

\* a mutant of GlobalMatch: neither guard against a missing nearest record, so
\* reading nearestCity.countryCode throws
GlobalMatchUnguarded(index, namesMap, lat, lon) ==
    IF index = Null THEN Thrown
    ELSE LET found == Scan(ToCheck(index, lat, lon), lat, lon, NoNearest)
         IN  IF found.nearest = Null THEN Thrown
             ELSE DisplayOf(found.nearest, namesMap)

\* lines 250-271: the global strategy
GlobalMatch(index, namesMap, lat, lon) ==
    IF index = Null THEN Thrown
    ELSE IF Len(index.cities) = 0 THEN None
    ELSE LET found == Scan(ToCheck(index, lat, lon), lat, lon, NoNearest)
         IN  IF found.nearest = Null THEN None
             ELSE DisplayOf(found.nearest, namesMap)

\* a mutant of Match: the global strategy first, the regional one as fallback
MatchGlobalFirst(ruIndex, index, namesMap, lat, lon) ==
    LET ru == IF inRussiaBbox(lat, lon) /\ ruIndex # Null
              THEN findNearestRussianCity(ruIndex, lat, lon)
              ELSE Null
        global == GlobalMatch(index, namesMap, lat, lon)
    IN  IF global.kind = "string" \/ ru = Null THEN global
        ELSE Str("g. " \o ru.name \o ", Rossiya", "regional")

\* lines 245-285: what reverseGeocodeDisplay returns once the load is awaited
Match(ruIndex, index, namesMap, lat, lon) ==
    LET ru == IF inRussiaBbox(lat, lon) /\ ruIndex # Null
              THEN findNearestRussianCity(ruIndex, lat, lon)
              ELSE Null
    IN  IF ru # Null THEN Str("g. " \o ru.name \o ", Rossiya", "regional")
        ELSE GlobalMatch(index, namesMap, lat, lon)

(***************************************************************************)
(* The engine: loadCitiesAsync, the async body behind loadPromise, and     *)
(* reverseGeocodeDisplay.  JavaScript runs one callback at a time, so an   *)
(* action is the code between two suspensions: the fs.readFile awaits of   *)
(* the body and the await of loadCitiesAsync in a call.  The body started  *)
(* by caller c is body[c], and loadPromise names the caller whose body it  *)
(* is the promise of.                                                      *)
(***************************************************************************)
NoResult == [kind |-> "pending", val |-> "", from |-> "none"]

IdleCall == [pc |-> "idle", lat |-> Fin(0), lon |-> Fin(0), via |-> "none",
             began |-> "null", awaits |-> Null, filesOk |-> FALSE,
             result |-> NoResult]

NoBody == [pc |-> "none", local |-> Null]

NoHist == [bodyRuns |-> 0,
           reads |-> [ru |-> 0, txt |-> 0],
           assigned |-> [cityIndex |-> 0, russianGeoIndex |-> 0, russianNamesMap |-> 0]]

PromiseOf(c) == [tag |-> "promise", of |-> c]

\* the state of a promise: that of the body it was made from
PromiseState(p) ==
    IF p = Null THEN "null"
    ELSE IF body[p.of].pc = "done" THEN "fulfilled"
    ELSE IF body[p.of].pc = "failed" THEN "rejected"
    ELSE "pending"

\* line 172: cityIndex?.isReady
IsReady == cityIndex # Null /\ cityIndex.isReady

\* line 173: if (loadPromise)
LoadInFlightNever == FALSE
LoadInFlight == loadPromise # Null

\* line 125: russianGeoIndex?.isReady
RuReady == russianGeoIndex # Null /\ russianGeoIndex.isReady

\* lines 178-181: the body starts and runs to its first fs.readFile
StartBody(c) ==
    /\ loadPromise' = PromiseOf(c)
    /\ body' = [body EXCEPT ![c] =
                  [pc |-> IF RuReady THEN "readTxt" ELSE "readRu", local |-> Null]]
    /\ hist' = [hist EXCEPT !.bodyRuns = @ + 1,
                            !.reads.ru = IF RuReady THEN @ ELSE @ + 1,
                            !.reads.txt = IF RuReady THEN @ + 1 ELSE @]
    /\ UNCHANGED <<cityIndex, russianGeoIndex, russianNamesMap>>

\* lines 239-243 and 171-202: a call enters reverseGeocodeDisplay and runs to
\* its await: the cache is ready, or it joins the promise, or it starts the body
BeginCall(c, q) ==
    /\ calls[c].pc = "idle"
    /\ LET via == IF IsReady THEN "ready"
                  ELSE IF LoadInFlight THEN "joined"
                  ELSE "started"
       IN  /\ calls' = [calls EXCEPT ![c] =
                          [pc |-> "await", lat |-> q.lat, lon |-> q.lon, via |-> via,
                           began |-> PromiseState(loadPromise),
                           awaits |-> IF via = "ready" THEN Null
                                      ELSE IF via = "joined" THEN loadPromise
                                      ELSE PromiseOf(c),
                           filesOk |-> fsOk["ru"] /\ fsOk["txt"],
                           result |-> NoResult]]
           /\ IF via = "started" THEN StartBody(c) ELSE UNCHANGED engineVars
    /\ UNCHANGED <<probe, ruFile, txtFile, fsOk, user, sending>>

\* the promise is rejected with the error of the failed read
RejectLoad(b) ==
    /\ body' = [body EXCEPT ![b] = [pc |-> "failed", local |-> Null]]
    /\ UNCHANGED <<cityIndex, russianGeoIndex, russianNamesMap, loadPromise, hist>>

\* lines 127-151, 179-181: the read of loadRussianGeo settles; on success the
\* regional index is published and the body goes on to read the gazetteer
ReadRuDone(b) ==
    /\ body[b].pc = "readRu"
    /\ IF fsOk["ru"]
       THEN /\ russianGeoIndex' = BuildRussianGeo(ruFile)
            /\ body' = [body EXCEPT ![b] = [pc |-> "readTxt", local |-> Null]]
            /\ hist' = [hist EXCEPT !.reads.txt = @ + 1,
                                    !.assigned.russianGeoIndex = @ + 1]
            /\ UNCHANGED <<cityIndex, russianNamesMap, loadPromise>>
       ELSE RejectLoad(b)
    /\ UNCHANGED <<probe, ruFile, txtFile, fsOk, calls, user, sending>>

\* lines 198-199: loadRussianNamesMap has returned; cityIndex is published
\* and the promise is fulfilled
PublishCityIndex(b, index) ==
    /\ cityIndex' = index
    /\ body' = [body EXCEPT ![b] = [pc |-> "done", local |-> Null]]
    /\ UNCHANGED loadPromise

\* lines 181-198, 155-157: the read of the gazetteer settles; on success the
\* lines are parsed and loadRussianNamesMap begins
ReadTxtDone(b) ==
    /\ body[b].pc = "readTxt"
    /\ IF fsOk["txt"]
       THEN LET index == BuildCityIndex(txtFile)
            IN  IF russianNamesMap # Null
                THEN /\ PublishCityIndex(b, index)
                     /\ hist' = [hist EXCEPT !.assigned.cityIndex = @ + 1]
                     /\ UNCHANGED <<russianGeoIndex, russianNamesMap>>
                ELSE /\ body' = [body EXCEPT ![b] = [pc |-> "readNames", local |-> index]]
                     /\ hist' = [hist EXCEPT !.reads.ru = @ + 1]
                     /\ UNCHANGED <<cityIndex, russianGeoIndex, russianNamesMap,
                                    loadPromise>>
       ELSE RejectLoad(b)
    /\ UNCHANGED <<probe, ruFile, txtFile, fsOk, calls, user, sending>>

\* lines 157-168, 198-200: the read of loadRussianNamesMap settles; on success
\* the map and cityIndex are published
ReadNamesDone(b) ==
    /\ body[b].pc = "readNames"
    /\ IF fsOk["ru"]
       THEN /\ russianNamesMap' = BuildNamesMap(ruFile)
            /\ PublishCityIndex(b, body[b].local)
            /\ hist' = [hist EXCEPT !.assigned.russianNamesMap = @ + 1,
                                    !.assigned.cityIndex = @ + 1]
            /\ UNCHANGED russianGeoIndex
       ELSE RejectLoad(b)
    /\ UNCHANGED <<probe, ruFile, txtFile, fsOk, calls, user, sending>>

\* a mutant of AwaitOutcome: the rejection is swallowed and matching goes on
AwaitOutcomeSwallowed(call) ==
    Match(russianGeoIndex, cityIndex, russianNamesMap, call.lat, call.lon)

\* a variant of AwaitOutcome: a call that joined a load in flight goes
\* straight to the global strategy
AwaitOutcomeJoinedGlobalOnly(call) ==
    IF PromiseState(call.awaits) = "rejected"
    THEN Thrown
    ELSE IF call.via = "joined"
    THEN GlobalMatch(cityIndex, russianNamesMap, call.lat, call.lon)
    ELSE Match(russianGeoIndex, cityIndex, russianNamesMap, call.lat, call.lon)

\* what await loadCitiesAsync() gives a call: the rejection of the promise it
\* awaits is thrown out of reverseGeocodeDisplay, otherwise lines 245-285 run
AwaitOutcome(call) ==
    IF PromiseState(call.awaits) = "rejected"
    THEN Thrown
    ELSE Match(russianGeoIndex, cityIndex, russianNamesMap, call.lat, call.lon)

\* the call may continue: it awaited nothing, or the promise has settled
CanResume(call) ==
    /\ call.pc = "await"
    /\ PromiseState(call.awaits) # "pending"

\* lines 243-285: the call continues after its await and settles
Resume(c) ==
    /\ CanResume(calls[c])
    /\ calls' = [calls EXCEPT ![c].pc = "done", ![c].result = AwaitOutcome(calls[c])]
    /\ UNCHANGED <<probe, ruFile, txtFile, fsOk, user, sending>>
    /\ UNCHANGED engineVars

\* the caller has taken the result; it may call again
Return(c) ==
    /\ calls[c].pc = "done"
    /\ calls' = [calls EXCEPT ![c] = IdleCall]
    /\ UNCHANGED <<probe, ruFile, txtFile, fsOk, user, sending>>
    /\ UNCHANGED engineVars

\* the environment: a dataset file becomes unreadable, or readable again.
\* filesOk of a call records that both files were readable all through it.
SetReadable(f, b) ==
    /\ fsOk[f] # b
    /\ fsOk' = [fsOk EXCEPT ![f] = b]
    /\ calls' = [c \in Callers |->
                   IF calls[c].pc = "await" /\ ~b
                   THEN [calls[c] EXCEPT !.filesOk = FALSE]
                   ELSE calls[c]]
    /\ UNCHANGED <<probe, ruFile, txtFile, user, sending>>
    /\ UNCHANGED engineVars

(***************************************************************************)
(* The survey state of one user (index.ts).                                *)
(***************************************************************************)
\* lines 105-118: the state getState creates for a new user
NewUserState ==
    [step |-> "idle",
     waitingForCityName |-> FALSE,
     answers |-> [name |-> "", age |-> "null", budget |-> "null", prompt |-> "",
                  location |-> "", occasions |-> << >>],
     products |-> "none",
     priceFilter |-> "default",
     favorites |-> {}]

(***************************************************************************)
(* The survey handlers (index.ts).  The button labels and the free text    *)
(* are written in Latin letters.  A text handler reads and writes the      *)
(* state in one synchronous run after its first await, except on Done,     *)
(* where it is suspended once more before sendResults.                     *)
(***************************************************************************)
BACK_BTN == "Back"
DONE_OCCASION_BTN == "Done"
CONFIRM_LOCATION_BTN == "Confirm"
CHANGE_LOCATION_BTN == "Change"
\* the literal of line 411
MANUAL_CITY_BTN == "Manual city"

\* ./data.js: the options of steps 2, 3 and 6 and the product lists
AGE_OPTIONS == {"18-25"}
BUDGET_OPTIONS == {"1000-3000"}
\* [...ALWAYS_OCCASIONS, ...SAMPLE_HOLIDAYS].slice(0, 12)
OccasionOptions == {"Birthday", "New Year"}

\* what the user may send as a text message at a step: a command, words of
\* their own, Back, or a button of the reply keyboard shown at that step
Keyboard(u) ==
    CASE u.step = "2" -> AGE_OPTIONS
      [] u.step = "3" -> BUDGET_OPTIONS
      [] u.step = "5" -> {MANUAL_CITY_BTN}
      [] u.step = "5_confirm" -> {CONFIRM_LOCATION_BTN, CHANGE_LOCATION_BTN}
      [] u.step = "6" -> OccasionOptions \cup {DONE_OCCASION_BTN}
      [] OTHER -> {}

TextInputs(u) == {"/new", "kofe", BACK_BTN} \cup Keyboard(u)

\* text.startsWith("/")
StartsWithSlash(t) == t = "/new"

\* the callback data of the inline buttons, after "action:"
ActionInputs ==
    {"price_up", "price_down", "supplement", "new_request", "favorites",
     "fav_1", "specs_1"}

ResetAnswers ==
    [name |-> "", age |-> "null", budget |-> "null", prompt |-> "",
     location |-> "", occasions |-> << >>]

\* lines 163-173 and 187-197: /start and /new
Restart(u) ==
    [u EXCEPT !.step = "1", !.answers = ResetAnswers, !.products = "none",
              !.priceFilter = "default"]

\* a variant of Back: from step 6 to the screen shown before it, the
\* confirmation of the location
BackToConfirm(u) ==
    CASE u.step = "2" -> [u EXCEPT !.step = "1"]
      [] u.step = "3" -> [u EXCEPT !.step = "2"]
      [] u.step = "4" -> [u EXCEPT !.step = "3"]
      [] u.step = "5" -> [u EXCEPT !.waitingForCityName = FALSE, !.step = "4"]
      [] u.step = "5_confirm" -> [u EXCEPT !.step = "5", !.waitingForCityName = FALSE]
      [] u.step = "6" -> [u EXCEPT !.step = "5_confirm", !.waitingForCityName = FALSE]
      [] OTHER -> u

\* lines 203-268: the Back button
Back(u) ==
    CASE u.step = "2" -> [u EXCEPT !.step = "1"]
      [] u.step = "3" -> [u EXCEPT !.step = "2"]
      [] u.step = "4" -> [u EXCEPT !.step = "3"]
      [] u.step = "5" -> [u EXCEPT !.waitingForCityName = FALSE, !.step = "4"]
      [] u.step = "5_confirm" -> [u EXCEPT !.step = "5", !.waitingForCityName = FALSE]
      [] u.step = "6" -> [u EXCEPT !.step = "5", !.waitingForCityName = FALSE]
      [] OTHER -> u

\* a variant of ToggleOccasion: the option is pushed whether selected or not
ToggleOccasionPush(occasions, t) == Append(occasions, t)

\* lines 468-479: an occasion is removed where it is found, else pushed
ToggleOccasion(occasions, t) ==
    IF \E i \in DOMAIN occasions : occasions[i] = t
    THEN LET idx == CHOOSE i \in DOMAIN occasions :
                        /\ occasions[i] = t
                        /\ \A j \in DOMAIN occasions : occasions[j] = t => i <= j
         IN  [i \in 1..(Len(occasions) - 1) |->
                 IF i < idx THEN occasions[i] ELSE occasions[i + 1]]
    ELSE Append(occasions, t)

\* a variant of DoneAccepted: Done is taken with an empty selection too
DoneAcceptedAnySelection(u, t) ==
    /\ t = DONE_OCCASION_BTN
    /\ u.step = "6"

\* the Done button is accepted: step 6 with an occasion selected
DoneAccepted(u, t) ==
    /\ t = DONE_OCCASION_BTN
    /\ u.step = "6"
    /\ Len(u.answers.occasions) # 0

\* lines 186-500: the state after the synchronous run of the text handler
AfterText(u, t) ==
    IF t = "/new" THEN Restart(u)
    ELSE IF t = BACK_BTN THEN Back(u)
    ELSE CASE u.step = "1" ->
                IF t = "" THEN u
                ELSE [u EXCEPT !.answers.name = t, !.step = "2"]
           [] u.step = "2" ->
                IF t \notin AGE_OPTIONS THEN u
                ELSE [u EXCEPT !.answers.age = t, !.step = "3"]
           [] u.step = "3" ->
                IF t \notin BUDGET_OPTIONS THEN u
                ELSE [u EXCEPT !.answers.budget = t, !.step = "4"]
           [] u.step = "4" ->
                IF t = "" THEN u
                ELSE [u EXCEPT !.answers.prompt = t, !.step = "5"]
           [] u.step = "5_confirm" ->
                IF t = CONFIRM_LOCATION_BTN THEN [u EXCEPT !.step = "6"]
                ELSE IF t = CHANGE_LOCATION_BTN
                THEN [u EXCEPT !.step = "5", !.waitingForCityName = FALSE]
                ELSE u
           [] u.step = "5" ->
                IF u.waitingForCityName
                THEN [u EXCEPT !.answers.location = t, !.waitingForCityName = FALSE,
                               !.step = "6"]
                ELSE IF t = MANUAL_CITY_BTN
                THEN [u EXCEPT !.waitingForCityName = TRUE]
                ELSE u
           [] u.step = "6" ->
                IF t = DONE_OCCASION_BTN
                THEN IF ~DoneAccepted(u, t) THEN u
                     ELSE [u EXCEPT !.step = "loading", !.products = "MOCK_PRODUCTS",
                                    !.priceFilter = "default"]
                ELSE IF t \in OccasionOptions
                THEN [u EXCEPT !.answers.occasions = ToggleOccasion(@, t)]
                ELSE u
           [] u.step = "results" ->
                IF t # "" /\ ~StartsWithSlash(t)
                THEN [u EXCEPT !.answers.prompt = t, !.products = "MOCK_PRODUCTS",
                               !.priceFilter = "default", !.step = "results"]
                ELSE u
           [] OTHER -> u

\* lines 161-177: bot.start
Start ==
    /\ user' = Restart(user)
    /\ UNCHANGED <<probe, ruFile, txtFile, fsOk, calls, sending>>
    /\ UNCHANGED engineVars

\* lines 180-501: bot.on("text"); an accepted Done leaves the handler
\* suspended at line 460 (one such handler at a time)
Text(t) ==
    /\ DoneAccepted(user, t) => ~sending
    /\ user' = AfterText(user, t)
    /\ sending' = (sending \/ DoneAccepted(user, t))
    /\ UNCHANGED <<probe, ruFile, txtFile, fsOk, calls>>
    /\ UNCHANGED engineVars

\* lines 463 and 686-691: the suspended handler goes on to sendResults
SendResults ==
    /\ sending
    /\ sending' = FALSE
    /\ user' = [user EXCEPT !.step = "results"]
    /\ UNCHANGED <<probe, ruFile, txtFile, fsOk, calls>>
    /\ UNCHANGED engineVars

\* Number.prototype.toFixed(2) of a coordinate kept in tenths of a degree
toFixed2(x) ==
    LET abs == IF x.v < 0 THEN 0 - x.v ELSE x.v
    IN  (IF x.v < 0 THEN "-" ELSE "")
        \o ToString(abs \div 10) \o "." \o ToString(abs % 10) \o "0"

\* line 517: the coordinates shown when the display is null ("deg" is the
\* degree sign)
CoordsLabel(lat, lon) == toFixed2(lat) \o "deg, " \o toFixed2(lon) \o "deg"

\* a variant of LocationAccepted: a location is taken at every step
LocationAcceptedAnyStep(u) == TRUE

\* line 506: the handler goes on only at step 5
LocationAccepted(u) == u.step = "5"

\* lines 504-515: bot.on("location") at step 5 calls reverseGeocodeDisplay
LocationStart(c, q) ==
    /\ LocationAccepted(user)
    /\ BeginCall(c, q)

\* a location message was dropped at line 506
LocationDropped == [op |-> "location", ignored |-> TRUE]

\* lines 504-506: bot.on("location") at any other step returns at once; that
\* such a message was handled is kept in probe
LocationIgnored ==
    /\ ~LocationAccepted(user)
    /\ probe' = LocationDropped
    /\ UNCHANGED <<ruFile, txtFile, fsOk, calls, user, sending>>
    /\ UNCHANGED engineVars

\* variant: a null display is treated as "not recognised" and nothing is stored
AfterGeocodeStringOnly(u, call) ==
    IF call.result.kind = "string"
    THEN [u EXCEPT !.answers.location = call.result.val, !.step = "5_confirm"]
    ELSE u

\* lines 516-518: what the handler stores once the call has returned
AfterGeocode(u, call) ==
    [u EXCEPT !.answers.location =
                  IF call.result.kind = "string" THEN call.result.val
                  ELSE CoordsLabel(call.lat, call.lon),
              !.step = "5_confirm"]

\* a variant of AfterLocation: no catch, the coordinates are stored on an
\* error as on a null display
AfterLocationNoCatch(u, call) == AfterGeocode(u, call)

\* lines 514-531: the try block, or the catch block that only replies
AfterLocation(u, call) ==
    IF call.result.kind = "error" THEN u ELSE AfterGeocode(u, call)

\* lines 515-531: the call has settled; the handler stores the display (or the
\* coordinates) and asks to confirm, or on an error asks to send again
LocationFinish(c) ==
    /\ calls[c].pc = "done"
    /\ user' = AfterLocation(user, calls[c])
    /\ calls' = [calls EXCEPT ![c] = IdleCall]
    /\ UNCHANGED <<probe, ruFile, txtFile, fsOk, sending>>
    /\ UNCHANGED engineVars

\* lines 588-593: the favourite is removed if present, else pushed
ToggleFavorite(favorites, id) ==
    IF id \in favorites THEN favorites \ {id} ELSE favorites \cup {id}

\* lines 535-613: the state after bot.action
AfterAction(u, a) ==
    CASE a = "price_up" ->
            [u EXCEPT !.products = "MOCK_PRODUCTS_EXPENSIVE", !.priceFilter = "up",
                      !.step = "results"]
      [] a = "price_down" ->
            [u EXCEPT !.products = "MOCK_PRODUCTS_CHEAP", !.priceFilter = "down",
                      !.step = "results"]
      [] a = "supplement" -> [u EXCEPT !.step = "results"]
      [] a = "new_request" -> [u EXCEPT !.step = "1", !.answers = ResetAnswers]
      [] a = "fav_1" -> [u EXCEPT !.favorites = ToggleFavorite(@, 1)]
      [] OTHER -> u

\* lines 535-613: bot.action, for a press of an inline button of a results
\* message; the messages of the chat outlive the in-memory state, so a press
\* may arrive at any step
Action(a) ==
    /\ user' = AfterAction(user, a)
    /\ UNCHANGED <<probe, ruFile, txtFile, fsOk, calls, sending>>
    /\ UNCHANGED engineVars

(***************************************************************************)
(* Specifications.                                                         *)
(***************************************************************************)
Files == {"ru", "txt"}

\* no function is being applied on its own
NoProbe == [op |-> "none"]

\* lines 119-122 and index.ts:98: the module state of a fresh process
InitGlobals ==
    /\ cityIndex = Null
    /\ russianGeoIndex = Null
    /\ russianNamesMap = Null
    /\ loadPromise = Null
    /\ body = [c \in Callers |-> NoBody]
    /\ hist = NoHist
    /\ calls = [c \in Callers |-> IdleCall]
    /\ user = NewUserState
    /\ sending = FALSE

InitEngine ==
    /\ InitGlobals
    /\ probe = NoProbe

\* The engine under concurrent callers and files that come and go; one query
\* inside the bounding box and one outside it.
LoadQueries == {qEdge, qOcean}

Init ==
    /\ ruFile \in {<< >>, <<rNear>>}
    /\ txtFile \in {<< >>, <<gNear>>}
    /\ fsOk \in [Files -> BOOLEAN]
    /\ InitEngine

Next ==
    \/ \E c \in Callers, q \in LoadQueries : BeginCall(c, q)
    \/ \E b \in Callers : ReadRuDone(b)
    \/ \E b \in Callers : ReadTxtDone(b)
    \/ \E b \in Callers : ReadNamesDone(b)
    \/ \E c \in Callers : Resume(c)
    \/ \E c \in Callers : Return(c)
    \/ \E f \in Files, b \in BOOLEAN : SetReadable(f, b)

Spec == Init /\ [][Next]_vars

\* The matcher over every dataset of the bounds: one caller, readable files.
InitMatch ==
    /\ ruFile \in SeqsUpTo(RegionalEntries, MaxLines)
    /\ txtFile \in SeqsUpTo(GlobalLines, MaxLines)
    /\ fsOk = [f \in Files |-> TRUE]
    /\ InitEngine

NextMatch ==
    \/ \E q \in Queries : BeginCall(1, q)
    \/ ReadRuDone(1)
    \/ ReadTxtDone(1)
    \/ ReadNamesDone(1)
    \/ Resume(1)
    \/ Return(1)

SpecMatch == InitMatch /\ [][NextMatch]_vars

\* The parsing loops of the loaders over files with rejected and doubtful
\* lines: one caller, readable files, one query.
\* besides those above: a latitude beyond the pole, an entry without coords
ParseEntries ==
    {rNear, rInf,
     RuEntry("Kray", FALSE, "", TRUE, "95.0", "38.0"),
     RuEntry("Bezmesta", FALSE, "", FALSE, "", "")}

\* besides those above: text for a latitude, text after a latitude, a
\* latitude beyond the pole, a blank name
ParseLinesOf ==
    {gNear, gShort, gInf, BlankLine,
     TxtLine(19, "Paris", "abc", "38.0", "PPLC", "FR", ""),
     TxtLine(19, "Paris", "56.0x", "38.0", "PPLC", "FR", ""),
     TxtLine(19, "Beyond", "95.0", "38.0", "PPL", "XX", ""),
     TxtLine(19, " ", "56.0", "38.0", "PPL", "RU", "")}

InitParse ==
    /\ ruFile \in SeqsUpTo(ParseEntries, MaxLines)
    /\ txtFile \in SeqsUpTo(ParseLinesOf, MaxLines)
    /\ fsOk = [f \in Files |-> TRUE]
    /\ InitEngine

NextParse ==
    \/ BeginCall(1, qEdge)
    \/ ReadRuDone(1)
    \/ ReadTxtDone(1)
    \/ ReadNamesDone(1)
    \/ Resume(1)
    \/ Return(1)

SpecParse == InitParse /\ [][NextParse]_vars

\* The bounding box: queries on its corners and just outside them, regional
\* points at those very coordinates, one caller, readable files.
BoxEntries ==
    {RuEntry("Yugozapad", FALSE, "", TRUE, "41.0", "19.0"),
     RuEntry("Severovostok", FALSE, "", TRUE, "82.0", "180.0"),
     RuEntry("Yuzhnee", FALSE, "", TRUE, "40.9", "19.0"),
     RuEntry("Zapadnee", FALSE, "", TRUE, "41.0", "18.9"),
     RuEntry("Severnee", FALSE, "", TRUE, "82.1", "180.0")}

InitBox ==
    /\ ruFile \in SeqsUpTo(BoxEntries, MaxLines)
    /\ txtFile \in {<< >>, <<gNear>>}
    /\ fsOk = [f \in Files |-> TRUE]
    /\ InitEngine

NextBox ==
    \/ \E q \in BoxQueries : BeginCall(1, q)
    \/ ReadRuDone(1)
    \/ ReadTxtDone(1)
    \/ ReadNamesDone(1)
    \/ Resume(1)
    \/ Return(1)

SpecBox == InitBox /\ [][NextBox]_vars

\* The translation of gazetteer names: entries with and without a native or
\* an english name, lines of the priority country and of another one with
\* the same name, one caller, readable files.
NamesEntries ==
    {rNear, rFar, RuEntry("", TRUE, "Moscow", TRUE, "56.0", "38.0"),
     RuEntry("Donetsk", TRUE, "Donetsk", TRUE, "55.1", "37.1"),
     RuEntry("Donetsk", TRUE, "Moscow", TRUE, "56.0", "38.0"),
     RuEntry("Orel", TRUE, " ", TRUE, "55.1", "37.1"),
     RuEntry("Orel", FALSE, "", TRUE, "55.1", "37.1")}
NamesLines ==
    {gNear, gFar, TxtLine(19, "Moscow", "56.0", "38.0", "PPL", "XX", "")}

InitNames ==
    /\ ruFile \in SeqsUpTo(NamesEntries, MaxLines)
    /\ txtFile \in SeqsUpTo(NamesLines, MaxLines)
    /\ fsOk = [f \in Files |-> TRUE]
    /\ InitEngine

NextNames ==
    \/ \E q \in LoadQueries : BeginCall(1, q)
    \/ ReadRuDone(1)
    \/ ReadTxtDone(1)
    \/ ReadNamesDone(1)
    \/ Resume(1)
    \/ Return(1)

SpecNames == InitNames /\ [][NextNames]_vars

\* The survey of one user over the engine: each location message of the user
\* is a call of the engine.
InitBot ==
    /\ \E d \in {<< << >>, << >> >>, << <<rNear>>, <<gNear>> >>} :
           ruFile = d[1] /\ txtFile = d[2]
    /\ fsOk \in {[f \in Files |-> TRUE], [f \in Files |-> f # "txt"]}
    /\ InitEngine

\* the user's location messages are handled one after the other
BotCallers == {1}

NextBot ==
    \/ Start
    \/ \E t \in TextInputs(user) : Text(t)
    \/ SendResults
    \/ \E a \in ActionInputs : Action(a)
    \/ \E c \in BotCallers, q \in LoadQueries : LocationStart(c, q)
    \/ \E b \in BotCallers : ReadRuDone(b)
    \/ \E b \in BotCallers : ReadTxtDone(b)
    \/ \E b \in BotCallers : ReadNamesDone(b)
    \/ \E c \in BotCallers : Resume(c)
    \/ \E c \in BotCallers : LocationFinish(c)

SpecBot == InitBot /\ [][NextBot]_vars

\* The display formatter on its own: lines 281-284 applied to every pair of a
\* city and a country name, empty ones included.
DisplayCities == {"", "Moskva", "Moscow", "Orel", "Oryol", "Paris", "Nowhere", "Ostrov"}
CountryNames == {"", "Rossiya", "Frantsiya", "RU", "FR", "XX", "DE"}

InitFormat ==
    /\ ruFile = << >>
    /\ txtFile = << >>
    /\ fsOk = [f \in Files |-> TRUE]
    /\ InitGlobals
    /\ \E city \in DisplayCities, country \in CountryNames :
           probe = [op |-> "format", displayCity |-> city, countryName |-> country,
                    out |-> NoResult]

\* lines 281-284 run on the two strings
ApplyFormat ==
    /\ probe.op = "format"
    /\ probe.out = NoResult
    /\ probe' = [probe EXCEPT !.out = Format(probe.displayCity, probe.countryName)]
    /\ UNCHANGED <<ruFile, txtFile, fsOk, calls, user, sending>>
    /\ UNCHANGED engineVars

NextFormat == ApplyFormat

SpecFormat == InitFormat /\ [][NextFormat]_vars

\* The survey with the location messages of every step, over readable files.
InitLocation ==
    /\ ruFile = <<rNear>>
    /\ txtFile = <<gNear>>
    /\ fsOk = [f \in Files |-> TRUE]
    /\ InitEngine

NextLocation ==
    \/ NextBot
    \/ LocationIgnored

SpecLocation == InitLocation /\ [][NextLocation]_vars

\* The matcher over a gazetteer with records on both sides of the
\* antimeridian and at 80 degrees north, one or two cells from the query.
FarLines ==
    {TxtLine(19, "Taveuni", "0.5", "178.5", "PPL", "FR", ""),
     TxtLine(19, "Baker", "0.5", "-179.9", "PPL", "FR", ""),
     TxtLine(19, "Nagurskoye", "79.1", "50.1", "PPL", "FR", ""),
     TxtLine(19, "Heiss", "80.5", "52.5", "PPL", "FR", "")}

FarQueries == {qDateline, qNorth}

InitFar ==
    /\ ruFile = << >>
    /\ txtFile \in SeqsUpTo(FarLines, MaxLines)
    /\ fsOk = [f \in Files |-> TRUE]
    /\ InitEngine

NextFar ==
    \/ \E q \in FarQueries : BeginCall(1, q)
    \/ ReadRuDone(1)
    \/ ReadTxtDone(1)
    \/ ReadNamesDone(1)
    \/ Resume(1)
    \/ Return(1)

SpecFar == InitFar /\ [][NextFar]_vars

\* The priority-region matcher over regional points at 80 degrees north, one
\* or two cells from the query.
FarEntries ==
    {rNear,
     RuEntry("Nagurskoye", FALSE, "", TRUE, "79.1", "50.1"),
     RuEntry("Heiss", FALSE, "", TRUE, "80.5", "52.5")}

InitFarRu ==
    /\ ruFile \in SeqsUpTo(FarEntries, MaxLines)
    /\ txtFile \in {<< >>, <<gNear>>}
    /\ fsOk = [f \in Files |-> TRUE]
    /\ InitEngine

NextFarRu ==
    \/ \E q \in {qNorth, qEdge} : BeginCall(1, q)
    \/ ReadRuDone(1)
    \/ ReadTxtDone(1)
    \/ ReadNamesDone(1)
    \/ Resume(1)
    \/ Return(1)

SpecFarRu == InitFarRu /\ [][NextFarRu]_vars

(***************************************************************************)
(* Claims about the one-time load (specification Spec).                    *)
(***************************************************************************)
Active == {c \in Callers : calls[c].pc # "idle"}

\* C1: after a load attempt has failed, the next reverseGeocodeDisplay call
\* starts a new load attempt, and with both files readable all through the
\* call it ends with a result, not with the error of the earlier attempt.
C1_RetryAfterFailure ==
    \A c \in Active :
        calls[c].began = "rejected" =>
            /\ calls[c].via = "started"
            /\ calls[c].pc = "done" /\ calls[c].filesOk => calls[c].result.kind # "error"

\* C2: however many calls begin before the first load has finished, the load
\* body runs once: a call that finds no promise starts it, a call that finds
\* it pending awaits that same promise, and what is published is what one
\* sequential load of the two files builds.
C2_LoadBodyRunsOnce ==
    /\ hist.bodyRuns <= 1
    /\ \A c \in Active :
          /\ calls[c].began = "null" => calls[c].via = "started" /\ hist.bodyRuns = 1
          /\ calls[c].began = "pending" =>
                calls[c].via = "joined" /\ calls[c].awaits = loadPromise
    /\ Cardinality({c \in Active : calls[c].via = "started"}) <= 1
    /\ IsReady =>
          /\ cityIndex = BuildCityIndex(txtFile)
          /\ russianGeoIndex = BuildRussianGeo(ruFile)
          /\ russianNamesMap = BuildNamesMap(ruFile)

\* two calls raced on the first load, one started it and one joined it, and
\* both got their answer from the one load
C2_Witness ==
    /\ IsReady
    /\ hist.bodyRuns = 1
    /\ \E c1, c2 \in Callers :
          /\ calls[c1].pc = "done" /\ calls[c1].via = "started"
          /\ calls[c2].pc = "done" /\ calls[c2].via = "joined"
          /\ calls[c2].began = "pending"
          /\ calls[c1].result.kind = "string"
          /\ calls[c2].result.kind = "string"

\* C3: when the load a call awaits has failed, the call (the one that started
\* the load or one that joined it) can continue and ends with the error; no
\* call ends with a match while cityIndex is unpublished.
C3_FailureReachesEveryWaiter ==
    \A c \in Active :
        /\ calls[c].pc = "await" /\ PromiseState(calls[c].awaits) = "rejected"
              => ENABLED Resume(c)
        /\ calls[c].pc = "done" /\ PromiseState(calls[c].awaits) = "rejected"
              => calls[c].result = Thrown
        /\ calls[c].pc = "done" /\ calls[c].result.kind # "error" => IsReady

\* the starter and a joiner of a failed load have both ended with the error,
\* the regional index being already published
C3_Witness ==
    /\ PromiseState(loadPromise) = "rejected"
    /\ russianGeoIndex # Null
    /\ \E c1, c2 \in Callers :
          /\ calls[c1].pc = "done" /\ calls[c1].via = "started"
          /\ calls[c2].pc = "done" /\ calls[c2].via = "joined"
          /\ calls[c1].result = Thrown
          /\ calls[c2].result = Thrown

\* C4: each of russianGeoIndex, cityIndex and russianNamesMap is assigned at
\* most once, and once assigned it is never replaced or changed; a ready
\* cityIndex stays ready.
C4_PublishedOnceAndFrozen ==
    /\ [](/\ hist.assigned.cityIndex <= 1
          /\ hist.assigned.russianGeoIndex <= 1
          /\ hist.assigned.russianNamesMap <= 1)
    /\ [][/\ cityIndex # Null => cityIndex' = cityIndex
          /\ russianGeoIndex # Null => russianGeoIndex' = russianGeoIndex
          /\ russianNamesMap # Null => russianNamesMap' = russianNamesMap]_vars

\* all three are published and queries have been answered from them since
C4_Witness ==
    /\ IsReady
    /\ hist.assigned = [cityIndex |-> 1, russianGeoIndex |-> 1, russianNamesMap |-> 1]
    /\ \E c \in Callers : calls[c].pc = "done" /\ calls[c].via = "ready"
    /\ \E c \in Callers : calls[c].pc = "await" /\ calls[c].via = "ready"

(***************************************************************************)
(* Claims about matching (specification SpecMatch).  The predicates below  *)
(* describe the datasets in terms of cells and distances, without the      *)
(* operators of the matcher.                                               *)
(***************************************************************************)
Done == {c \in Callers : calls[c].pc = "done"}

\* the distance from the query of a call to a stored point
DistanceTo(call, p) == haversineDistance(call.lat, call.lon, p.lat, p.lon)

\* the stored point lies in the cell of the query or in one of the 8 around it
InBlock(call, p) ==
    /\ p.lat.k = "fin" /\ p.lon.k = "fin"
    /\ (p.lat.v \div GRID_CELL_SIZE) - (call.lat.v \div GRID_CELL_SIZE) \in {-1, 0, 1}
    /\ (p.lon.v \div GRID_CELL_SIZE) - (call.lon.v \div GRID_CELL_SIZE) \in {-1, 0, 1}

\* the stored point lies in the cell of the query
InOwnCell(call, p) ==
    /\ p.lat.k = "fin" /\ p.lon.k = "fin"
    /\ p.lat.v \div GRID_CELL_SIZE = call.lat.v \div GRID_CELL_SIZE
    /\ p.lon.v \div GRID_CELL_SIZE = call.lon.v \div GRID_CELL_SIZE

\* the positions of the list the matcher looks at: those of the block, or all
\* of them when the block is empty
Pool(call, list) ==
    LET block == {i \in DOMAIN list : InBlock(call, list[i])}
    IN  IF block = {} THEN DOMAIN list ELSE block

\* position i holds a point of least distance among the positions of pool
NearestAmong(call, list, pool, i) ==
    /\ i \in pool
    /\ DistanceTo(call, list[i]).k = "fin"
    /\ \A j \in pool :
          DistanceTo(call, list[j]).k = "fin" =>
              DistanceTo(call, list[i]).v <= DistanceTo(call, list[j]).v

WithinRadius(call, p) ==
    /\ DistanceTo(call, p).k = "fin"
    /\ DistanceTo(call, p).v <= MAX_RU_MATCH_KM * 1000

\* the priority-region strategy applies and finds position i within the radius
RegionalHit(call, i) ==
    /\ inRussiaBbox(call.lat, call.lon)
    /\ russianGeoIndex # Null
    /\ NearestAmong(call, russianGeoIndex.cities,
                    Pool(call, russianGeoIndex.cities), i)
    /\ WithinRadius(call, russianGeoIndex.cities[i])

NoRegionalHit(call) ==
    russianGeoIndex # Null =>
        \A i \in DOMAIN russianGeoIndex.cities : ~RegionalHit(call, i)

\* C5: a query answered after a successful load of a non-empty global dataset
\* returns a string, never null.
C5_NeverNullWhenNonEmpty ==
    \A c \in Done :
        /\ IsReady
        /\ Len(cityIndex.cities) > 0
        /\ calls[c].result.kind # "error"
        => calls[c].result.kind = "string"

\* C6: a query inside the bounding box that is farther than MAX_RU_MATCH_KM
\* from every regional point gets no regional match: its result is that of
\* the global strategy.
C6_FarRegionalFallsThrough ==
    \A c \in Done :
        /\ IsReady
        /\ inRussiaBbox(calls[c].lat, calls[c].lon)
        /\ \A i \in DOMAIN russianGeoIndex.cities :
              NumGt(DistanceTo(calls[c], russianGeoIndex.cities[i]),
                    Fin(MAX_RU_MATCH_KM * 1000))
        => /\ calls[c].result.from # "regional"
           /\ calls[c].result =
                 GlobalMatch(cityIndex, russianNamesMap, calls[c].lat, calls[c].lon)

\* a query in the box, the only regional point 102 km away in its own cell,
\* answered from the gazetteer
C6_Witness ==
    \E c \in Done :
        /\ calls[c].lat = qEdge.lat /\ calls[c].lon = qEdge.lon
        /\ ruFile = <<rFar>>
        /\ Len(russianGeoIndex.cities) = 1
        /\ calls[c].result.from = "global"

\* C7: when the query is inside the bounding box and the priority-region
\* strategy finds a point within the radius, the result is "g. " + the native
\* name of that point + ", Rossiya", whatever the gazetteer holds.
C7_RegionalMatchWins ==
    \A c \in Done :
        IsReady =>
            \A i \in DOMAIN russianGeoIndex.cities :
                RegionalHit(calls[c], i) =>
                    calls[c].result =
                        Str("g. " \o russianGeoIndex.cities[i].name \o ", Rossiya",
                            "regional")

\* a regional match returned although the gazetteer loaded with no record
C7_Witness ==
    \E c \in Done :
        /\ calls[c].result = Str("g. Moskva, Rossiya", "regional")
        /\ IsReady
        /\ Len(cityIndex.cities) = 0

\* C8: when the record nearest to the query over the whole gazetteer lies in
\* one of the 8 cells around the cell of the query, the global strategy
\* returns that record, also when the cell of the query holds farther ones.
C8_NearestAcrossCellBoundary ==
    \A c \in Done :
        IsReady /\ calls[c].result.kind # "error" /\ calls[c].result.from # "regional" =>
            \A i \in DOMAIN cityIndex.cities :
                /\ NearestAmong(calls[c], cityIndex.cities, DOMAIN cityIndex.cities, i)
                /\ InBlock(calls[c], cityIndex.cities[i])
                /\ ~InOwnCell(calls[c], cityIndex.cities[i])
                => calls[c].result = DisplayOf(cityIndex.cities[i], russianNamesMap)

\* the query's own cell holds a record 102 km away, the cell across the
\* corner one 13 km away, and the nearer one was returned
C8_Witness ==
    \E c \in Done :
        /\ IsReady
        /\ calls[c].result.from = "global"
        /\ \E i, j \in DOMAIN cityIndex.cities :
              /\ InOwnCell(calls[c], cityIndex.cities[j])
              /\ ~InOwnCell(calls[c], cityIndex.cities[i])
              /\ InBlock(calls[c], cityIndex.cities[i])
              /\ DistanceTo(calls[c], cityIndex.cities[i]).v
                    < DistanceTo(calls[c], cityIndex.cities[j]).v
              /\ calls[c].result = DisplayOf(cityIndex.cities[i], russianNamesMap)

\* C9: when the gazetteer loaded with zero records and the priority-region
\* strategy does not match, the call returns null and does not throw.
C9_NullWhenNothingResolvable ==
    \A c \in Done :
        /\ IsReady
        /\ Len(cityIndex.cities) = 0
        /\ NoRegionalHit(calls[c])
        => calls[c].result = None

\* null returned for a query in the box: the gazetteer had only a rejected
\* line and the regional point was out of radius
C9_Witness ==
    \E c \in Done :
        /\ txtFile # << >>
        /\ IsReady
        /\ Len(cityIndex.cities) = 0
        /\ inRussiaBbox(calls[c].lat, calls[c].lon)
        /\ Len(russianGeoIndex.cities) > 0
        /\ calls[c].result = None

(***************************************************************************)
(* Claims about the location handler of the survey (SpecBot).              *)
(***************************************************************************)
\* the location handler of caller c finishes in this step, its call having
\* returned null
FinishesWithNull(c) ==
    /\ calls[c].pc = "done"
    /\ calls[c].result = None
    /\ calls'[c] = IdleCall

C11_DisplayPrecedence ==
    probe.op = "format" /\ probe.out # NoResult =>
        LET city == probe.displayCity
            country == probe.countryName
        IN  /\ city # "" /\ country # "" =>
                  probe.out.kind = "string"
                  /\ probe.out.val = "g. " \o city \o ", " \o country
            /\ city # "" /\ country = "" =>
                  probe.out.kind = "string" /\ probe.out.val = "g. " \o city
            /\ city = "" /\ country # "" =>
                  probe.out.kind = "string" /\ probe.out.val = country
            /\ city = "" /\ country = "" => probe.out = None

\* C11 witness: a city with a country has been formatted
C11_Witness ==
    /\ probe.op = "format"
    /\ probe.displayCity = "Paris"
    /\ probe.countryName = "Frantsiya"
    /\ probe.out.kind = "string"
    /\ probe.out.val = "g. Paris, Frantsiya"

(***************************************************************************)
(* Claims about the parsing loops (SpecParse).                             *)
(***************************************************************************)
\* the string is a number written out: a decimal literal or "Infinity"
IsNumeric(str) == str \in DOMAIN DecimalValue \/ str = "Infinity"

\* the line has its 15 fields, a name, a country code and numeric coordinates
WellFormed(line) ==
    /\ line.parts >= 15
    /\ Trim(line.name) # ""
    /\ Trim(line.country) # ""
    /\ IsNumeric(Trim(line.lat))
    /\ IsNumeric(Trim(line.lon))

\* C12: a gazetteer line with fewer than 15 fields or a non-numeric latitude
\* or longitude is skipped without failing the load: the load succeeds and
\* the number of loaded records is the number of well-formed lines.
C12_MalformedLinesSkipped ==
    /\ \A b \in Callers : body[b].pc # "failed"
    /\ IsReady =>
          Len(cityIndex.cities) =
              Cardinality({i \in DOMAIN txtFile : WellFormed(txtFile[i])})

\* the stored point has finite coordinates, the latitude in [-90, 90] and the
\* longitude in [-180, 180]
ValidCoordinates(p) ==
    /\ p.lat.k = "fin" /\ p.lat.v >= -900 /\ p.lat.v <= 900
    /\ p.lon.k = "fin" /\ p.lon.v >= -1800 /\ p.lon.v <= 1800

\* C18: every record stored in the regional list or in the global list has
\* finite coordinates inside the valid range; an entry or a line with an
\* infinite or out-of-range coordinate is never stored.
C18_StoredCoordinatesValid ==
    /\ russianGeoIndex # Null =>
          \A i \in DOMAIN russianGeoIndex.cities :
              ValidCoordinates(russianGeoIndex.cities[i])
    /\ cityIndex # Null =>
          \A i \in DOMAIN cityIndex.cities : ValidCoordinates(cityIndex.cities[i])

(***************************************************************************)
(* Claims about the answers of concurrent calls (Spec).                    *)
(***************************************************************************)
\* the call has returned a value (a string or null), not thrown
Answered == {c \in Callers : calls[c].pc = "done" /\ calls[c].result.kind # "error"}

\* the answer the two files of the snapshot determine for a pair of coordinates
AnswerOfSnapshot(lat, lon) ==
    Match(BuildRussianGeo(ruFile), BuildCityIndex(txtFile), BuildNamesMap(ruFile),
          lat, lon)

\* C13: for a fixed pair of dataset files, two calls with the same coordinates
\* return the same value, and that value depends on the files and the
\* coordinates only: not on the calls made before, nor on whether the call
\* started the load, joined it or found it finished.
C13_SameCoordinatesSameAnswer ==
    /\ \A c1, c2 \in Answered :
          calls[c1].lat = calls[c2].lat /\ calls[c1].lon = calls[c2].lon =>
              /\ calls[c1].result.kind = calls[c2].result.kind
              /\ calls[c1].result.val = calls[c2].result.val
    /\ \A c \in Answered :
          /\ calls[c].result.kind = AnswerOfSnapshot(calls[c].lat, calls[c].lon).kind
          /\ calls[c].result.val = AnswerOfSnapshot(calls[c].lat, calls[c].lon).val

\* C13 witness: two calls with the same coordinates raced on the first load,
\* one started it and one joined it, and both returned the same string
C13_Witness ==
    \E c1, c2 \in Answered :
        /\ c1 # c2
        /\ calls[c1].lat = calls[c2].lat /\ calls[c1].lon = calls[c2].lon
        /\ calls[c1].via = "started"
        /\ calls[c2].via = "joined"
        /\ calls[c1].result.kind = "string"
        /\ calls[c1].result.val = calls[c2].result.val
        /\ inRussiaBbox(calls[c1].lat, calls[c1].lon)

(***************************************************************************)
(* Claims about the survey (SpecBot).                                      *)
(***************************************************************************)
\* the question before each step, as the claim lists them
PreviousQuestion ==
    ("2" :> "1") @@ ("3" :> "2") @@ ("4" :> "3") @@ ("5" :> "4") @@
    ("5_confirm" :> "5") @@ ("6" :> "5")

\* C14: the Back button returns to the previous question: from step 2 to 1,
\* 3 to 2, 4 to 3, 5 to 4, from the confirmation of the location to step 5
\* and from step 6 to step 5; at idle, 1, loading and results it leaves the
\* step unchanged.
C14_BackGoesToPreviousQuestion ==
    [][Text(BACK_BTN) =>
          user'.step = IF user.step \in DOMAIN PreviousQuestion
                       THEN PreviousQuestion[user.step]
                       ELSE user.step]_vars

\* C14 witness: the survey is at step 4 with the wish of step 4 already
\* given, which only Back at step 5 leads to
C14_Witness ==
    /\ user.step = "4"
    /\ user.answers.prompt = "kofe"
    /\ user.answers.budget = "1000-3000"

\* the survey has just been restarted: step 1 and no answer given yet
Fresh(u) ==
    /\ u.step = "1"
    /\ u.answers = ResetAnswers
    /\ u.products = "none"
    /\ u.priceFilter = "default"

\* /start and /new leave the survey restarted
C15_RestartResets ==
    [][Start \/ Text("/new") => Fresh(user')]_vars

\* C15: /start or /new restarts the survey from every state: afterwards the
\* step is 1 and the answers, the product list and the price filter hold
\* their initial values, and no answer of the run before reaches the new run:
\* as long as the user has answered nothing, no answer is stored.
C15_RestartClearsPreviousRun ==
    /\ [][Start \/ Text("/new") => Fresh(user')]_vars
    /\ [][Fresh(user) /\ ~Text("kofe") => user'.answers = ResetAnswers]_vars

(***************************************************************************)
(* Claims about failed loads and file reads (Spec).                        *)
(***************************************************************************)
\* a load attempt has failed
SomeLoadFailed == \E b \in Callers : body[b].pc = "failed"

\* C16: a failed load attempt publishes nothing: after the failure the
\* regional index, the global index and the translation map are all unset
\* and no load promise is left behind.
C16_FailedLoadPublishesNothing ==
    SomeLoadFailed =>
        /\ russianGeoIndex = Null
        /\ cityIndex = Null
        /\ russianNamesMap = Null
        /\ loadPromise = Null

\* C19: over any sequence of queries each of the two dataset files is read at
\* most once per successful load: with the load promise shared, no file is
\* read a second time.
C19_EachFileReadOnce ==
    IsReady =>
        /\ hist.reads.ru <= 1
        /\ hist.reads.txt <= 1

(***************************************************************************)
(* Claims about the bounding box (SpecBox).                                *)
(***************************************************************************)
\* the query lies in lat 41..82, lon 19..180, the bounds included
InsideBox(call) ==
    /\ call.lat.v >= 410 /\ call.lat.v <= 820
    /\ call.lon.v >= 190 /\ call.lon.v <= 1800

\* a regional point lies at exactly the coordinates of the query
RegionalPointAtQuery(call) ==
    \E i \in DOMAIN russianGeoIndex.cities :
        /\ russianGeoIndex.cities[i].lat = call.lat
        /\ russianGeoIndex.cities[i].lon = call.lon

\* C17: the priority-region strategy is attempted only for a query inside the
\* bounding box (lat 41..82, lon 19..180, bounds inclusive): a query outside
\* it is answered by the global strategy alone, even with a regional point at
\* its very coordinates, and a query on the bounds with such a point is
\* answered from the regional index.
C17_RegionalOnlyInsideBox ==
    \A c \in Done :
        IsReady /\ calls[c].result.kind # "error" =>
            /\ ~InsideBox(calls[c]) =>
                  /\ calls[c].result.from # "regional"
                  /\ calls[c].result =
                        GlobalMatch(cityIndex, russianNamesMap, calls[c].lat, calls[c].lon)
            /\ InsideBox(calls[c]) /\ RegionalPointAtQuery(calls[c]) =>
                  calls[c].result.from = "regional"

\* C17 witness: a query a tenth of a degree south of the box, with a regional
\* point at its very coordinates, was answered null from the empty gazetteer
C17_Witness ==
    \E c \in Done :
        /\ IsReady
        /\ calls[c].lat = Fin(409) /\ calls[c].lon = Fin(190)
        /\ RegionalPointAtQuery(calls[c])
        /\ calls[c].result = None

(***************************************************************************)
(* Claims about the translation of gazetteer names (SpecNames).            *)
(***************************************************************************)
\* the calls answered by the global strategy
AnsweredGlobally == {c \in Done : IsReady /\ calls[c].result.from = "global"}

\* the record of the gazetteer the global strategy matched for the call
Matched(call) ==
    Scan(ToCheck(cityIndex, call.lat, call.lon), call.lat, call.lon, NoNearest).nearest

\* the display name of a country code: that of the table, else the code
CountryNameOf(code) ==
    IF code \in DOMAIN CODE_TO_COUNTRY_NAME THEN CODE_TO_COUNTRY_NAME[code] ELSE code

\* the lowercased name of the record is a key of the translation map
HasTranslation(city) == toLowerCase(city.name) \in DOMAIN russianNamesMap.entries

Translation(city) == russianNamesMap.entries[toLowerCase(city.name)]

\* C20 (as stated): for a match of the gazetteer, if its country code is "RU"
\* and its lowercased name is a key of the translation map, the displayed
\* city is the mapped native name; in every other case it is the gazetteer's
\* own spelling.
C20_TranslatedWhenKeyPresent ==
    \A c \in AnsweredGlobally :
        LET city == Matched(calls[c])
            shown == IF city.countryCode = "RU" /\ HasTranslation(city)
                     THEN Translation(city)
                     ELSE city.name
        IN  calls[c].result.val = Format(shown, CountryNameOf(city.countryCode)).val

\* C20 (amended): the displayed city is the mapped native name if the country
\* code is "RU", the lowercased name is a key of the translation map and the
\* mapped name is not empty; in every other case it is the gazetteer's own
\* spelling.
C20_TranslatedWhenNativeNameKnown ==
    \A c \in AnsweredGlobally :
        LET city == Matched(calls[c])
            shown == IF /\ city.countryCode = "RU"
                        /\ HasTranslation(city)
                        /\ Translation(city) # ""
                     THEN Translation(city)
                     ELSE city.name
        IN  calls[c].result.val = Format(shown, CountryNameOf(city.countryCode)).val

\* C20 witness: outside the bounding box the record Moscow of the priority
\* country was matched and shown under its native name
C20_Witness ==
    \E c \in AnsweredGlobally :
        /\ ~inRussiaBbox(calls[c].lat, calls[c].lon)
        /\ Matched(calls[c]).name = "Moscow"
        /\ Matched(calls[c]).countryCode = "RU"
        /\ calls[c].result.val = "g. Moskva, Rossiya"

\* C21: a matched record whose country code is not in the country table is
\* displayed with the raw code in place of the country name: the call returns
\* that string, it neither throws nor returns null.
C21_UnmappedCodeShownRaw ==
    \A c \in Done :
        /\ IsReady
        /\ calls[c].result.from # "regional"
        /\ Matched(calls[c]) # Null
        /\ Matched(calls[c]).countryCode \notin DOMAIN CODE_TO_COUNTRY_NAME
        => /\ calls[c].result.kind = "string"
           /\ calls[c].result.val =
                 "g. " \o Matched(calls[c]).name \o ", " \o Matched(calls[c]).countryCode

\* C21 witness: the record Moscow with the code XX, which no country table
\* holds, was matched and shown with the code
C21_Witness ==
    \E c \in Done :
        /\ IsReady
        /\ Matched(calls[c]) # Null
        /\ Matched(calls[c]).countryCode = "XX"
        /\ calls[c].result.val = "g. Moscow, XX"

\* the entry of the file has a romanized name
HasRomanizedName(entry) == entry.hasEnglish /\ Trim(entry.english_name) # ""

\* C22: the translation map never contains an entry derived from the entry
\* named "Donetsk", whatever its romanized name, nor one derived from an entry
\* without a romanized name: every key of the map is the lowercased romanized
\* name of an entry of the file that is not the sentinel, mapped to the name
\* of such an entry.
C22_SentinelAndNamelessExcluded ==
    russianNamesMap # Null =>
        \A key \in DOMAIN russianNamesMap.entries :
            /\ russianNamesMap.entries[key] # "Donetsk"
            /\ \E i \in DOMAIN ruFile :
                  /\ ruFile[i].name # "Donetsk"
                  /\ HasRomanizedName(ruFile[i])
                  /\ toLowerCase(Trim(ruFile[i].english_name)) = key
                  /\ ruFile[i].name = russianNamesMap.entries[key]

\* C22 witness: the file holds the sentinel under the romanized name Moscow
\* and an entry with a blank romanized name, and the published map is empty
C22_Witness ==
    /\ russianNamesMap # Null
    /\ DOMAIN russianNamesMap.entries = {}
    /\ \E i, j \in DOMAIN ruFile :
          /\ ruFile[i].name = "Donetsk" /\ ruFile[i].english_name = "Moscow"
          /\ ruFile[j].name = "Orel" /\ ruFile[j].english_name = " "

\* the location handler of caller c finishes in this step, its call having
\* thrown
FinishesWithError(c) ==
    /\ calls[c].pc = "done"
    /\ calls[c].result = Thrown
    /\ calls'[c] = IdleCall

\* C24: when reverseGeocodeDisplay throws while a location is handled, the
\* handler changes neither the step nor the stored location answer: a survey
\* at step 5 stays at step 5.
C24_ErrorKeepsStepAndLocation ==
    [][\A c \in BotCallers :
          FinishesWithError(c) =>
              /\ user'.step = user.step
              /\ user'.answers.location = user.answers.location]_vars

\* C24 witness: the load has failed, the handler of the location has finished
\* and the survey is at step 5 with no location answer
C24_Witness ==
    /\ PromiseState(loadPromise) = "rejected"
    /\ \A c \in Callers : calls[c].pc = "idle"
    /\ user.step = "5"
    /\ user.answers.location = ""

\* C25: at step 6 the Done button advances only with an occasion selected:
\* with an empty selection nothing changes, step and product list included;
\* with a non-empty one the step becomes loading, with the default product
\* list and price filter, and from loading the suspended handler makes it
\* results with that list and filter.
C25_DoneNeedsAnOccasion ==
    /\ [][Text(DONE_OCCASION_BTN) /\ user.step = "6" =>
            IF Len(user.answers.occasions) = 0
            THEN user' = user /\ sending' = sending
            ELSE /\ user'.step = "loading"
                 /\ user'.products = "MOCK_PRODUCTS"
                 /\ user'.priceFilter = "default"
                 /\ sending']_vars
    /\ [][sending /\ ~sending' /\ user.step = "loading" =>
            /\ user'.step = "results"
            /\ user'.products = "MOCK_PRODUCTS"
            /\ user'.priceFilter = "default"]_vars
    /\ [](user.step = "loading" => sending)

\* C25 witness: the results of a survey with two occasions selected, the
\* default product list and price filter, the handler of Done having finished
C25_Witness ==
    /\ user.step = "results"
    /\ Len(user.answers.occasions) = 2
    /\ user.products = "MOCK_PRODUCTS"
    /\ user.priceFilter = "default"
    /\ ~sending

\* the occasions selected, as a set
Selected(occasions) == {occasions[i] : i \in DOMAIN occasions}

\* C26: at step 6 a press of an occasion option toggles it: an unselected
\* option is added, a selected one removed, so two presses of the same option
\* restore the selection; the selection never holds an option twice and
\* holds offered options only.
C26_OccasionToggles ==
    /\ [][\A t \in OccasionOptions :
              Text(t) /\ user.step = "6" =>
                  Selected(user'.answers.occasions) =
                      IF t \in Selected(user.answers.occasions)
                      THEN Selected(user.answers.occasions) \ {t}
                      ELSE Selected(user.answers.occasions) \cup {t}]_vars
    /\ [](LET occasions == user.answers.occasions
          IN  /\ Selected(occasions) \subseteq OccasionOptions
              /\ Cardinality(Selected(occasions)) = Len(occasions)
              /\ \A t \in OccasionOptions :
                    Selected(ToggleOccasion(ToggleOccasion(occasions, t), t))
                        = Selected(occasions))

\* C26 witness: at step 6 both options are selected, the second one offered
\* pressed first
C26_Witness ==
    /\ user.step = "6"
    /\ Len(user.answers.occasions) = 2
    /\ user.answers.occasions[1] = "New Year"
    /\ user.answers.occasions[2] = "Birthday"

\* the location handler of caller c finishes in this step
Finishes(c) ==
    /\ calls[c].pc = "done"
    /\ calls'[c] = IdleCall

\* C27: the location handler does not override a step change made while
\* its geocoding call was pending: when it finishes with the survey no
\* longer at step 5 (Back, /new or /start handled meanwhile), it sets neither
\* the step nor the location answer.
C27_PendingLocationKeepsStepChange ==
    [][\A c \in BotCallers :
          Finishes(c) /\ user.step # "5" =>
              /\ user'.step = user.step
              /\ user'.answers.location = user.answers.location]_vars

\* C28: waitingForCityName is true only while the step is 5, and step 5 is
\* entered from step 4 with the flag false, so that the first text typed at
\* step 5 is not stored as the city unless the manual-city button was
\* pressed in this visit.
C28_WaitingForCityOnlyAtStep5 ==
    /\ [](user.waitingForCityName => user.step = "5")
    /\ [][user.step = "4" /\ user'.step = "5"
             => ~user'.waitingForCityName]_vars

\* C29: the step is results only after a completed survey: whenever the
\* step is results, the answers hold at least one selected occasion.
C29_ResultsOnlyWithOccasion ==
    user.step = "results" => Len(user.answers.occasions) >= 1

(***************************************************************************)
(* Claims about location messages at other steps (SpecLocation).           *)
(***************************************************************************)
\* C23: a location message received while the step is not 5 changes nothing
\* in the state of the user (step, answers, products, price filter and
\* favourites) and starts no geocoding call, so no result of it is stored.
C23_LocationIgnoredOffStep5 ==
    [][user.step # "5" =>
          /\ probe' # probe => user' = user /\ calls' = calls
          /\ \A c \in Callers : calls[c].pc = "idle" => calls'[c].pc = "idle"]_vars

\* C23 witness: a location message was handled and dropped, the survey being
\* past the location question with its answers and a favourite in place
C23_Witness ==
    /\ probe = LocationDropped
    /\ user.step = "results"
    /\ user.answers.location = "kofe"
    /\ user.favorites = {1}
    /\ \A c \in Callers : calls[c].pc = "idle"

(***************************************************************************)
(* Claims about records outside the 3x3 block (SpecFar).                   *)
(***************************************************************************)
\* C30: the record the global strategy selects is the nearest record of the
\* whole gazetteer, not only of the 3x3 block: the result is the display
\* string of a record than which no record, inside or outside the block, is
\* closer to the query.
C30_GlobalNearestOfWholeDataset ==
    \A c \in AnsweredGlobally :
        \E i \in DOMAIN cityIndex.cities :
            /\ calls[c].result = DisplayOf(cityIndex.cities[i], russianNamesMap)
            /\ NearestAmong(calls[c], cityIndex.cities, DOMAIN cityIndex.cities, i)

(***************************************************************************)
(* Claims about regional points outside the 3x3 block (SpecFarRu).         *)
(***************************************************************************)
\* C31: for a query inside the priority bounding box, whenever some regional
\* point lies within the match radius the priority-region strategy matches:
\* the result is a regional name, whichever grid cell that point falls in.
C31_RegionalPointInRadiusMatches ==
    \A c \in Done :
        /\ IsReady
        /\ calls[c].result.kind # "error"
        /\ inRussiaBbox(calls[c].lat, calls[c].lon)
        /\ \E i \in DOMAIN russianGeoIndex.cities :
              WithinRadius(calls[c], russianGeoIndex.cities[i])
        => calls[c].result.from = "regional"

====
